---- MODULE Spec2Model ----
(***************************************************************************)
(* Production Scheduler (src/schedule.py): the session's order book        *)
(* (st.session_state.df), the staged calendar changes                      *)
(* (pending_calendar_changes) and the table's pending flag                 *)
(* (pending_table_changes), with one action per script run that a user     *)
(* interaction triggers.  A run ends where the handler ends: at st.rerun() *)
(* or at the end of the script.                                            *)
(*                                                                         *)
(* A data frame is a sequence of rows; the field idx of a row is its index *)
(* label.  The columns WO, Status, Customer Name, Scheduled Date, Color    *)
(* and Type are modelled; Quote, PO Number, Model Description, Actual      *)
(* Delivery Date and Price are display columns that every handler treats   *)
(* as it treats Customer Name.                                             *)
(***************************************************************************)
EXTENDS Integers, Sequences, FiniteSets, TLC

VARIABLES df, pending_calendar_changes, pending_table_changes, handler, runs

vars == <<df, pending_calendar_changes, pending_table_changes, handler, runs>>

\* ---------------------------------------------------------------- bounds
MaxRows == 2        \* Add Placeholder is offered while the store has fewer rows
MaxRuns == 4        \* most handler runs of one session

\* ------------------------------------------------------------ value sets
NaN == "nan"        \* pandas' missing value of an object column
NaT == 0            \* pandas' missing timestamp; a timestamp is a day of March 2024

WOVals == {"A1", "PLACEHOLDER-2"}
StatusVals == {"Completed"}
LoadStatusVals == {"Scheduled"}
CustomerVals == {"Acme"}
PlaceholderNames == {"Tentative - X"}
Days == {5}
RawDates == {"2024-03-01", "not a date"}
DropStarts == {"2024-03-01", "2024-03-05"}

\* ------------------------------------------------------ dates and labels
\* pd.to_datetime(..., errors='coerce') and pd.Timestamp(...) of a date string
to_datetime(s) ==
  CASE s = "2024-03-01" -> 1
    [] s = "2024-03-05" -> 5
    [] OTHER -> NaT

\* Timestamp.strftime('%Y-%m-%d')
strftime(t) == "2024-03-0" \o ToString(t)

isna(t) == t = NaT

\* int(event["id"]): the label whose str() is the event id
int(s) == CHOOSE n \in 0..MaxRows : ToString(n) = s

\* ------------------------------------------------------------ the colors
STATUS_COLORS ==
  [s \in {"Completed", "In Progress", "Scheduled", "Placeholder", "Unscheduled"} |->
     CASE s = "Completed" -> "#28a745"
       [] s = "In Progress" -> "#007bff"
       [] s = "Scheduled" -> "#ffc107"
       [] s = "Placeholder" -> "#fd7e14"
       [] s = "Unscheduled" -> "#6c757d"]

\* Series.map(STATUS_COLORS): a status the dict lacks maps to NaN
map_colors(status) ==
  IF status \in DOMAIN STATUS_COLORS THEN STATUS_COLORS[status] ELSE NaN

fillna(v, default) == IF v = NaN THEN default ELSE v

\* df['Status'].map(STATUS_COLORS).fillna(STATUS_COLORS['Unscheduled'])
StatusColor(status) == fillna(map_colors(status), STATUS_COLORS["Unscheduled"])

\* --------------------------------------------------------- the data frame
None == [isNone |-> TRUE, rows |-> <<>>]
Frame(rows) == [isNone |-> FALSE, rows |-> rows]

Index(rows) == {rows[i].idx : i \in 1..Len(rows)}

\* df.loc[label]
loc(rows, label) == rows[CHOOSE i \in 1..Len(rows) : rows[i].idx = label]

\* pd.concat(..., ignore_index=True) and read_csv: labels 0..n-1 in row order
RangeIndex(rows) == [i \in 1..Len(rows) |-> [rows[i] EXCEPT !.idx = i - 1]]

\* load_data: None when the file cannot be read
load_data(uploaded_file) ==
  IF ~uploaded_file.ok THEN None
  ELSE Frame(RangeIndex(
         [i \in 1..Len(uploaded_file.rows) |->
            [idx |-> 0,
             WO |-> uploaded_file.rows[i].WO,
             Status |-> uploaded_file.rows[i].Status,
             Customer |-> uploaded_file.rows[i].Customer,
             Sched |-> to_datetime(uploaded_file.rows[i].Sched),
             Color |-> StatusColor(uploaded_file.rows[i].Status),
             Type |-> "Job"]]))

\* one event of df_to_calendar_events
Event(row) ==
  [id |-> ToString(row.idx),
   start |-> strftime(row.Sched),
   backgroundColor |-> row.Color,
   borderColor |-> row.Color,
   wo |-> row.WO,
   customer |-> row.Customer,
   status |-> row.Status]

RECURSIVE EventsOf(_)
EventsOf(rows) ==
  IF rows = <<>> THEN <<>>
  ELSE IF isna(Head(rows).Sched) THEN EventsOf(Tail(rows))
       ELSE <<Event(Head(rows))>> \o EventsOf(Tail(rows))

df_to_calendar_events_all(frame) == [i \in 1..Len(frame.rows) |-> Event(frame.rows[i])]

df_to_calendar_events(frame) == EventsOf(frame.rows)

\* ------------------------------------------------------------------ Init
Init ==
  /\ df = None
  /\ pending_calendar_changes = <<>>
  /\ pending_table_changes = FALSE
  /\ handler = "init"
  /\ runs = 0

\* every handler run is counted, and a session has at most MaxRuns of them
Ran(h) ==
  /\ runs < MaxRuns
  /\ runs' = runs + 1
  /\ handler' = h

\* the files the uploader can hold
RawRows == [WO : WOVals, Status : LoadStatusVals, Customer : CustomerVals, Sched : RawDates]

\* an unreadable file, and the readable files of no, one or two rows
Files ==
  {[ok |-> FALSE, rows |-> <<>>]} \cup
  {[ok |-> TRUE, rows |-> r] : r \in {<<>>} \cup {<<a>> : a \in RawRows} \cup (RawRows \X RawRows)}

\* "Load Data": the store becomes what load_data returns; nothing else is reset
LoadData ==
  \E f \in Files :
    /\ df' = load_data(f)
    /\ Ran("load_data")
    /\ UNCHANGED <<pending_calendar_changes, pending_table_changes>>

\* ------------------------------------------------------ Add Placeholder
\* the row the form builds: its WO is synthesized from the record count
new_row(rows, placeholder_name, placeholder_date) ==
  [idx |-> 0,
   WO |-> "PLACEHOLDER-" \o ToString(Len(rows) + 1),
   Status |-> "Placeholder",
   Customer |-> placeholder_name,
   Sched |-> placeholder_date,
   Color |-> STATUS_COLORS["Placeholder"],
   Type |-> "Placeholder"]

\* pd.concat([df, DataFrame([new_row])], ignore_index=True)
add_placeholder(frame, placeholder_name, placeholder_date) ==
  Frame(RangeIndex(Append(frame.rows, new_row(frame.rows, placeholder_name, placeholder_date))))

AddPlaceholder ==
  \E name \in PlaceholderNames, date \in Days :
    /\ ~df.isNone
    /\ Len(df.rows) < MaxRows
    /\ df' = add_placeholder(df, name, date)
    /\ Ran("add_placeholder")
    /\ UNCHANGED <<pending_calendar_changes, pending_table_changes>>

\* ------------------------------------------------------------ the calendar
\* the position of the staged change for event_id, 0 when there is none
existing_change(pending, event_id) ==
  IF \E i \in 1..Len(pending) : pending[i].event_id = event_id
  THEN CHOOSE i \in 1..Len(pending) :
         /\ pending[i].event_id = event_id
         /\ \A j \in 1..(i - 1) : pending[j].event_id # event_id
  ELSE 0

upsert_append(pending, change_info) == Append(pending, change_info)

\* replace the staged change of the same event, else append
upsert_change(pending, change_info) ==
  IF existing_change(pending, change_info.event_id) # 0
  THEN [pending EXCEPT ![existing_change(pending, change_info.event_id)] = change_info]
  ELSE Append(pending, change_info)

\* df.loc[label, 'Scheduled Date'] = value: a label the index lacks enlarges the
\* frame by a row whose other columns are missing
loc_set_date(rows, label, value) ==
  IF label \in Index(rows)
  THEN [i \in 1..Len(rows) |->
          IF rows[i].idx = label THEN [rows[i] EXCEPT !.Sched = value] ELSE rows[i]]
  ELSE Append(rows, [idx |-> label, WO |-> NaN, Status |-> NaN, Customer |-> NaN,
                     Sched |-> value, Color |-> NaN, Type |-> NaN])

RECURSIVE apply_changes(_, _)
apply_changes(rows, pending) ==
  IF pending = <<>> THEN rows
  ELSE apply_changes(loc_set_date(rows, Head(pending).event_id, Head(pending).new_date),
                     Tail(pending))

eventDrop_immediate(frame, pending, dropped_id, dropped_start) ==
  [df |-> Frame(loc_set_date(frame.rows, int(dropped_id), to_datetime(dropped_start))),
   pending |-> upsert_change(pending,
                 [event_id |-> int(dropped_id),
                  new_date |-> to_datetime(dropped_start),
                  wo |-> loc(frame.rows, int(dropped_id)).WO])]

\* the eventDrop handler: the session state it leaves
eventDrop(frame, pending, dropped_id, dropped_start) ==
  [df |-> frame,
   pending |-> upsert_change(pending,
                 [event_id |-> int(dropped_id),
                  new_date |-> to_datetime(dropped_start),
                  wo |-> loc(frame.rows, int(dropped_id)).WO])]

\* the events the calendar shows, the only ones a user can drag or click
ShownIds == {df_to_calendar_events(df)[i].id : i \in 1..Len(df_to_calendar_events(df))}

\* the branch of the handler that ran: a staged change replaced, or one appended
DropBranch(id) ==
  IF existing_change(pending_calendar_changes, int(id)) # 0
  THEN "eventDrop_replace" ELSE "eventDrop_append"

EventDrop ==
  \E id \in ShownIds, start \in DropStarts :
    /\ ~df.isNone
    /\ df' = eventDrop(df, pending_calendar_changes, id, start).df
    /\ pending_calendar_changes' = eventDrop(df, pending_calendar_changes, id, start).pending
    /\ Ran(DropBranch(id))
    /\ UNCHANGED pending_table_changes

update_calendar_first(frame, pending) ==
  [df |-> Frame(loc_set_date(frame.rows, Head(pending).event_id, Head(pending).new_date)),
   pending |-> <<>>]

\* "Update Schedule" below the calendar
update_calendar(frame, pending) ==
  [df |-> Frame(apply_changes(frame.rows, pending)), pending |-> <<>>]

UpdateCalendar ==
  /\ ~df.isNone
  /\ pending_calendar_changes # <<>>
  /\ df' = update_calendar(df, pending_calendar_changes).df
  /\ pending_calendar_changes' = update_calendar(df, pending_calendar_changes).pending
  /\ Ran("update_calendar")
  /\ UNCHANGED pending_table_changes

cancel_calendar_applies(frame, pending) ==
  [df |-> Frame(apply_changes(frame.rows, pending)), pending |-> <<>>]

\* "Cancel Changes" below the calendar
cancel_calendar(frame, pending) == [df |-> frame, pending |-> <<>>]

CancelCalendar ==
  /\ ~df.isNone
  /\ pending_calendar_changes # <<>>
  /\ df' = cancel_calendar(df, pending_calendar_changes).df
  /\ pending_calendar_changes' = cancel_calendar(df, pending_calendar_changes).pending
  /\ Ran("cancel_calendar")
  /\ UNCHANGED pending_table_changes

\* the eventClick handler reads the row and shows it
eventClick(frame, pending, clicked_id) == [df |-> frame, pending |-> pending]

EventClick ==
  \E id \in ShownIds :
    /\ ~df.isNone
    /\ df' = eventClick(df, pending_calendar_changes, id).df
    /\ pending_calendar_changes' = eventClick(df, pending_calendar_changes, id).pending
    /\ Ran("eventClick")
    /\ UNCHANGED pending_table_changes

\* --------------------------------------------------------------- the table
EditorColumns == {"WO", "Status", "Customer Name", "Scheduled Date"}

\* the columns of a row that the data editor shows
EditorRow(row) == [WO |-> row.WO, Status |-> row.Status, Customer |-> row.Customer, Sched |-> row.Sched]

\* Series.str.contains(customer_search, case=False, na=False)
str_contains(customer, customer_search) ==
  CASE customer = NaN -> FALSE
    [] customer_search = "acme" -> customer = "Acme"
    [] customer_search = "tent" -> customer = "Tentative - X"
    [] OTHER -> FALSE

CustomerSearches == {"", "tent"}

\* the rows that pass the three filters, in store order, with their labels
filtered_df(rows, status_filter, show_unscheduled, customer_search) ==
  SelectSeq(rows, LAMBDA r :
    /\ r.Status \in status_filter
    /\ show_unscheduled => isna(r.Sched)
    /\ customer_search # "" => str_contains(r.Customer, customer_search))

\* filtered_df[edited_df.columns]
EditorView(filtered) == [i \in 1..Len(filtered) |-> EditorRow(filtered[i])]

\* the values a cell of a column can be edited to
ColumnVals(col) ==
  CASE col = "WO" -> {"A1"}
    [] col = "Status" -> StatusVals
    [] col = "Customer Name" -> CustomerVals
    [] col = "Scheduled Date" -> {NaT}

SetCell(row, col, v) ==
  CASE col = "WO" -> [row EXCEPT !.WO = v]
    [] col = "Status" -> [row EXCEPT !.Status = v]
    [] col = "Customer Name" -> [row EXCEPT !.Customer = v]
    [] col = "Scheduled Date" -> [row EXCEPT !.Sched = v]

\* a row added in the editor and left blank
BlankRow == [WO |-> NaN, Status |-> NaN, Customer |-> NaN, Sched |-> NaT]

\* num_rows="dynamic": a blank row added at the end, the last row deleted, or both
ResizedViews(view) ==
  IF view = <<>> THEN {}
  ELSE {Append(view, BlankRow),
        SubSeq(view, 1, Len(view) - 1),
        Append(SubSeq(view, 1, Len(view) - 1), BlankRow)}

\* what st.data_editor returns: the view, the view with one cell typed over, or
\* the view with rows added or deleted
EditedViews(view) ==
  {view} \cup
  UNION {{[view EXCEPT ![p] = SetCell(view[p], col, v)] :
            p \in 1..Len(view), v \in ColumnVals(col)} : col \in EditorColumns} \cup
  ResizedViews(view)

\* not edited_df.equals(filtered_df[edited_df.columns])
changes_detected(edited, filtered) == edited # EditorView(filtered)

\* the position in the view of the row labelled label
PosOf(filtered, label) == CHOOSE i \in 1..Len(filtered) : filtered[i].idx = label

write_back_head(rows, filtered, edited) ==
  [i \in 1..Len(rows) |->
     IF i <= Len(edited)
     THEN [rows[i] EXCEPT !.WO = edited[i].WO, !.Status = edited[i].Status,
                          !.Customer = edited[i].Customer, !.Sched = edited[i].Sched]
     ELSE rows[i]]

\* for col in edited_df.columns: df.loc[filtered_df.index, col] = edited_df[col].values
write_back(rows, filtered, edited) ==
  [i \in 1..Len(rows) |->
     IF rows[i].idx \in Index(filtered)
     THEN [rows[i] EXCEPT
             !.WO = edited[PosOf(filtered, rows[i].idx)].WO,
             !.Status = edited[PosOf(filtered, rows[i].idx)].Status,
             !.Customer = edited[PosOf(filtered, rows[i].idx)].Customer,
             !.Sched = edited[PosOf(filtered, rows[i].idx)].Sched]
     ELSE rows[i]]

\* df['Color'] = df['Status'].map(STATUS_COLORS).fillna(...)
recolor(rows) == [i \in 1..Len(rows) |-> [rows[i] EXCEPT !.Color = StatusColor(rows[i].Status)]]

\* "Update Schedule" below the table
update_table(frame, filtered, edited) ==
  [df |-> Frame(recolor(write_back(frame.rows, filtered, edited))), flag |-> FALSE]

\* "Update Schedule" below the table when the editor's row count differs from the
\* view's: the first assignment of line 573 raises and the run ends there
update_table_raises(frame, flag) == [df |-> frame, flag |-> flag]

\* whether the confirmed view left rows of the store out
TableBranch(filtered) ==
  IF Len(filtered) < Len(df.rows) THEN "update_table_filtered" ELSE "update_table"

\* "Cancel Changes" below the table
cancel_table(frame, flag) == [df |-> frame, flag |-> FALSE]

\* a run in which the editor holds an edit and no button is pressed
table_edit(frame, flag) == [df |-> frame, flag |-> TRUE]

\* the status filter offers the statuses in the store
StatusOptions == {df.rows[i].Status : i \in 1..Len(df.rows)}

\* the views the three filter widgets can produce
FilteredViews ==
  {filtered_df(df.rows, status_filter, show_unscheduled, customer_search) :
     status_filter \in SUBSET StatusOptions, show_unscheduled \in BOOLEAN,
     customer_search \in CustomerSearches}

\* the editor can hold an edit of some filtered view
EditPossible ==
  \E filtered \in FilteredViews :
    \E edited \in EditedViews(EditorView(filtered)) : changes_detected(edited, filtered)

TableEdit ==
  /\ ~df.isNone
  /\ EditPossible
  /\ df' = table_edit(df, pending_table_changes).df
  /\ pending_table_changes' = table_edit(df, pending_table_changes).flag
  /\ Ran("table_edit")
  /\ UNCHANGED pending_calendar_changes

UpdateTable ==
  \E filtered \in FilteredViews :
    \E edited \in EditedViews(EditorView(filtered)) :
      /\ ~df.isNone
      /\ changes_detected(edited, filtered) \/ pending_table_changes
      /\ Len(edited) = Len(filtered)
      /\ df' = update_table(df, filtered, edited).df
      /\ pending_table_changes' = update_table(df, filtered, edited).flag
      /\ Ran(TableBranch(filtered))
      /\ UNCHANGED pending_calendar_changes

\* the editor can hold a view whose row count differs from the filtered view's
ResizePossible ==
  \E filtered \in FilteredViews :
    \E edited \in EditedViews(EditorView(filtered)) : Len(edited) # Len(filtered)

UpdateTableRaises ==
  /\ ~df.isNone
  /\ ResizePossible
  /\ df' = update_table_raises(df, pending_table_changes).df
  /\ pending_table_changes' = update_table_raises(df, pending_table_changes).flag
  /\ Ran("update_table_error")
  /\ UNCHANGED pending_calendar_changes

CancelTable ==
  /\ ~df.isNone
  /\ EditPossible \/ pending_table_changes
  /\ df' = cancel_table(df, pending_table_changes).df
  /\ pending_table_changes' = cancel_table(df, pending_table_changes).flag
  /\ Ran("cancel_table")
  /\ UNCHANGED pending_calendar_changes

Next ==
  \/ LoadData
  \/ AddPlaceholder
  \/ EventDrop
  \/ UpdateCalendar
  \/ CancelCalendar
  \/ EventClick
  \/ TableEdit
  \/ UpdateTable
  \/ UpdateTableRaises
  \/ CancelTable

Spec == Init /\ [][Next]_vars

\* ==================================================================== claims
Rows == df.rows
Pending == pending_calendar_changes

\* C1: staging never mutates the store.  A step of the eventDrop handler or of an
\* unconfirmed table edit leaves every record of the store as it was, and a step
\* that changes the store is a step of "Update Schedule" (calendar or table),
\* "Add Placeholder" or "Load Data".
C1_StagingNeverMutatesStore ==
  [][/\ handler' \in {"eventDrop_append", "eventDrop_replace", "table_edit"} => df' = df
     /\ df' # df => handler' \in {"update_calendar", "update_table",
                                  "update_table_filtered",
                                  "add_placeholder", "load_data"}]_vars

\* a drop has just been staged whose date differs from the date the store holds
C1_Witness ==
  /\ handler \in {"eventDrop_append", "eventDrop_replace"}
  /\ \E i \in 1..Len(Pending) :
       /\ Pending[i].event_id \in Index(Rows)
       /\ loc(Rows, Pending[i].event_id).Sched # Pending[i].new_date

EventsFor(frame, label) ==
  {i \in 1..Len(df_to_calendar_events(frame)) :
     df_to_calendar_events(frame)[i].id = ToString(label)}

\* C3: confirm applies the staged date.  After "Update Schedule" below the
\* calendar, for every change that was staged the row of that label holds the
\* staged date, the pending set is empty, and the event list of the store has
\* exactly one event for the label, whose start is the date string of the drop.
C3_ConfirmAppliesStagedDate ==
  [][handler' = "update_calendar" =>
       /\ pending_calendar_changes' = <<>>
       /\ \A i \in 1..Len(pending_calendar_changes) :
            LET c == pending_calendar_changes[i] IN
              /\ c.event_id \in Index(df'.rows)
              /\ loc(df'.rows, c.event_id).Sched = c.new_date
              /\ Cardinality(EventsFor(df', c.event_id)) = 1
              /\ \A e \in EventsFor(df', c.event_id) :
                   /\ df_to_calendar_events(df')[e].start \in DropStarts
                   /\ to_datetime(df_to_calendar_events(df')[e].start) = c.new_date]_vars

\* a confirm has just moved a loaded job to the fifth, a date no file holds
C3_Witness ==
  /\ handler = "update_calendar"
  /\ Pending = <<>>
  /\ \E i \in 1..Len(Rows) : Rows[i].Type = "Job" /\ Rows[i].Sched = 5

\* the staged changes of a label
ChangesOf(pending, label) == {i \in 1..Len(pending) : pending[i].event_id = label}

C5_UniqueWorkOrderId ==
  \A i, j \in 1..Len(Rows) : Rows[i].WO = Rows[j].WO => i = j

\* the positions in the event list of the events of a row
EventsOfRow(row) ==
  {e \in 1..Len(df_to_calendar_events(df)) :
     df_to_calendar_events(df)[e].id = ToString(row.idx)}

\* C6: the event list built from the store has no event for a row without a
\* scheduled date and exactly one event for each row with one; the events carry
\* pairwise distinct ids and each shows the date of its row.
C6_EventsMatchScheduledRows ==
  /\ \A i \in 1..Len(Rows) :
       /\ isna(Rows[i].Sched) => EventsOfRow(Rows[i]) = {}
       /\ ~isna(Rows[i].Sched) =>
            /\ Cardinality(EventsOfRow(Rows[i])) = 1
            /\ \A e \in EventsOfRow(Rows[i]) :
                 to_datetime(df_to_calendar_events(df)[e].start) = Rows[i].Sched
  /\ \A e, f \in 1..Len(df_to_calendar_events(df)) :
       df_to_calendar_events(df)[e].id = df_to_calendar_events(df)[f].id => e = f
  /\ \A e \in 1..Len(df_to_calendar_events(df)) :
       \E i \in 1..Len(Rows) : e \in EventsOfRow(Rows[i])

\* a store with a scheduled row and an unscheduled one
C6_Witness ==
  /\ \E i \in 1..Len(Rows) : isna(Rows[i].Sched)
  /\ \E i \in 1..Len(Rows) : ~isna(Rows[i].Sched)
  /\ Len(df_to_calendar_events(df)) = 1

\* C7: color never drifts from status: the color of every row of the store is
\* the status-to-color mapping of its status, and is never a missing value.
C7_ColorFollowsStatus ==
  \A i \in 1..Len(Rows) :
    /\ Rows[i].Color = StatusColor(Rows[i].Status)
    /\ Rows[i].Color # NaN

\* the columns of a row, without its label
Columns(row) ==
  [WO |-> row.WO, Status |-> row.Status, Customer |-> row.Customer,
   Sched |-> row.Sched, Color |-> row.Color, Type |-> row.Type]

\* C8: Add Placeholder adds exactly one record and leaves the others as they
\* were; the new record is a Placeholder of status Placeholder on the chosen
\* date, its WO differs from every WO that was in the store, and it is in the
\* event list with the Placeholder color.
C8_AddPlaceholder ==
  [][handler' = "add_placeholder" =>
       /\ Len(df'.rows) = Len(df.rows) + 1
       /\ \A i \in 1..Len(df.rows) : Columns(df'.rows[i]) = Columns(df.rows[i])
       /\ LET new == df'.rows[Len(df'.rows)] IN
            /\ new.Type = "Placeholder"
            /\ new.Status = "Placeholder"
            /\ new.Sched \in Days
            /\ \A i \in 1..Len(df.rows) : df.rows[i].WO # new.WO
            /\ \E e \in 1..Len(df_to_calendar_events(df')) :
                 /\ df_to_calendar_events(df')[e].id = ToString(new.idx)
                 /\ df_to_calendar_events(df')[e].backgroundColor = STATUS_COLORS["Placeholder"]
                 /\ to_datetime(df_to_calendar_events(df')[e].start) = new.Sched]_vars

\* C9: calendar interactions touch only the scheduled date.  The confirm keeps
\* the set of records, changes no column but the scheduled date, and changes the
\* scheduled date of no row the pending set does not name; an eventClick changes
\* neither the store nor the pending set.
C9_CalendarTouchesOnlyScheduledDate ==
  [][/\ handler' = "update_calendar" =>
          /\ Len(df'.rows) = Len(df.rows)
          /\ \A i \in 1..Len(df.rows) :
               /\ i \in 1..Len(df'.rows)
               /\ [df'.rows[i] EXCEPT !.Sched = NaT] = [df.rows[i] EXCEPT !.Sched = NaT]
               /\ ChangesOf(pending_calendar_changes, df.rows[i].idx) = {}
                    => df'.rows[i] = df.rows[i]
     /\ handler' = "eventClick" =>
          /\ df' = df
          /\ pending_calendar_changes' = pending_calendar_changes]_vars

\* C10: an update addressed to a label that is not in the store is a no-op: the
\* confirm creates no record, and when no staged label is in the store it leaves
\* the store as it was.
C10_MissingIdIsNoOp ==
  [][handler' = "update_calendar" =>
       /\ Index(df'.rows) = Index(df.rows)
       /\ (\A i \in 1..Len(pending_calendar_changes) :
             pending_calendar_changes[i].event_id \notin Index(df.rows)) => df' = df]_vars

\* C11: a staged change is applied to the record it was staged for: every entry
\* of the pending set names a label that is in the store, and the row of that
\* label carries the WO captured when the entry was staged.
C11_StagedChangeKeepsItsRecord ==
  ~df.isNone =>
    \A i \in 1..Len(Pending) :
      /\ Pending[i].event_id \in Index(Rows)
      /\ loc(Rows, Pending[i].event_id).WO = Pending[i].wo

\* the position, among the rows of the view f, of the i-th row of the store
RankIn(rows, f, i) == Cardinality({j \in 1..i : rows[j].idx \in Index(f)})

====
